---- MODULE Spec2Model ----
(***************************************************************************)
(* The RPC client of enders-sync-client (src/src/client.ts): an object    *)
(* with a url field and two prototype methods, load and call.  load       *)
(* assigns forwarding closures to properties of the object itself; call   *)
(* is an async function with two suspension points (fetch, response.json).*)
(*                                                                         *)
(* Strings are sequences of atoms: a url is a sequence of characters, a   *)
(* message is the sequence of the pieces its template literal joins.      *)
(***************************************************************************)
EXTENDS Integers, Sequences, FiniteSets, TLC

VARIABLES ctorArg, obj, calls, net, lastLoad

vars == <<ctorArg, obj, calls, net, lastLoad>>

(* ---------------------------------------------------------------- bounds *)

MaxUrlLen == 3
MaxParams == 2
MaxLoad == 2
MaxCalls == 2

api_version == 1

SeqsUpTo(S, n) == UNION {[1..k -> S] : k \in 0..n}

Chars == {"h", "/"}
UrlStrings == SeqsUpTo(Chars, MaxUrlLen)
CtorArgs == [form : {"string", "config"}, url : UrlStrings]

\* property names a caller may pass to load: an ordinary function name and
\* the names the class itself uses
Names == {"getUser", "url", "call", "load"}
\* the names the server of the README's example has registered
Registry == {"getUser"}

Values == {"1", "undefined"}
ParamLists == SeqsUpTo(Values, MaxParams)
LoadLists == SeqsUpTo(Names, MaxLoad)

Statuses == {200, 500}
Causes == {"TypeError: Failed to fetch", "AbortError: The operation was aborted"}

NoBody == [kind |-> "none", success |-> FALSE, data |-> "undefined", error |-> "undefined"]
Envelopes == [kind : {"envelope"}, success : BOOLEAN,
              data : {"undefined", "d1"}, error : {"undefined", "boom"}]
Bodies == Envelopes \cup
          { [NoBody EXCEPT !.kind = "unparseable"], [NoBody EXCEPT !.kind = "null"] }

\* call slots: one awaited call at a time, or MaxCalls calls in flight together
OneSlot == {1}
Slots == 1..MaxCalls
\* net[0] holds what load() has sent, net[c] what the call in slot c has
Senders == 0..MaxCalls

\* the smaller input sets of the concurrent specification and of the
\* specification of construction
ConcNames == {"getUser", "url"}
ConcParams == {<<>>, [i \in 1..MaxParams |-> IF i % 2 = 1 THEN "1" ELSE "undefined"]}
ConcStatuses == {200}
ConcCauses == {"TypeError: Failed to fetch"}
ConcBodies == {b \in Bodies :
                 \/ (b.kind = "envelope" /\ b.success /\ b.data = "d1" /\ b.error = "undefined")
                 \/ (b.kind = "envelope" /\ ~b.success /\ b.data = "undefined" /\ b.error = "boom")}
ConcCtorArgs == {a \in CtorArgs : a.form = "string" /\ a.url = <<"h">>}
\* the addresses of the specification of calls: "h" and "/"
CallCtorArgs == {a \in CtorArgs : a.form = "string" /\ Len(a.url) = 1}
ConcLoadLists == {<<n>> : n \in ConcNames}
NewLoadLists == SeqsUpTo(ConcNames, 1)
NewBodies == ConcBodies \cup {b \in Bodies : b.kind = "unparseable"}

(* ------------------------------------------------------ values and text *)

FnSrc == "(...args) => this.call(name, args)"

StringValue(s) == [kind |-> "string", name |-> "", text |-> s]
\* the closure of line 27, which captures name
StubValue(name) == [kind |-> "stub", name |-> name, text |-> <<FnSrc>>]

endsWith(s, c) == Len(s) > 0 /\ s[Len(s)] = c
\* s.slice(0, -1)
sliceLast(s) == SubSeq(s, 1, Len(s) - 1)

\* lines 21-22
NormalizeUrl(arg) ==
    LET urlString == arg.url
    IN  IF endsWith(urlString, "/") THEN sliceLast(urlString) ELSE urlString

\* own properties shadow the prototype's methods
IsStub(o, p) == p \in DOMAIN o /\ o[p].kind = "stub"
StubNames(o) == {p \in DOMAIN o : o[p].kind = "stub"}

Range(q) == {q[i] : i \in 1..Len(q)}
Contains(msg, atom) == \E i \in 1..Len(msg) : msg[i] = atom
ContainsSeq(msg, sub) ==
    \E i \in 0..(Len(msg) - Len(sub)) : SubSeq(msg, i + 1, i + Len(sub)) = sub

\* JSON.stringify of one element of an array: undefined becomes null
JsonValue(v) == IF v = "undefined" THEN "null" ELSE v
JsonParams(params) == [i \in 1..Len(params) |-> JsonValue(params[i])]

\* line 40
CallBody(name, params) ==
    [method |-> name, params |-> JsonParams(params), version |-> api_version]

\* lines 35-41
CallRequest(o, name, params) ==
    [verb |-> "POST",
     target |-> o["url"].text \o <<"/call">>,
     contentType |-> "application/json",
     body |-> CallBody(name, params)]

NetworkErrorMessageNoCause(name, url, e) ==
    <<"RPC Network Error while calling ", name, " from ">> \o url

\* line 43
NetworkErrorMessage(name, url, e) ==
    <<"RPC Network Error while calling ", name, " from ">> \o url \o <<": ", e>>

FunctionErrorMessageNoName(name, error) ==
    <<"RPC function error from backend: ", error>>

\* line 49
FunctionErrorMessage(name, error) ==
    <<"RPC function error from backend: ", name, "()\t ", error>>

Resolved(v) == [kind |-> "resolved", class |-> "", value |-> v, message |-> <<>>]
Rejected(class, msg) == [kind |-> "rejected", class |-> class, value |-> "undefined", message |-> msg]
Threw(class, msg) == [kind |-> "threw", class |-> class, value |-> "undefined", message |-> msg]
Pending == [kind |-> "pending", class |-> "", value |-> "undefined", message |-> <<>>]

\* tests the presence of error where the code tests success
SettleOnError(name, body) ==
    IF body.kind = "unparseable"
    THEN Rejected("SyntaxError", <<"Unexpected token in JSON">>)
    ELSE IF body.kind = "null"
    THEN Rejected("TypeError", <<"Cannot read properties of null (reading 'success')">>)
    ELSE IF body.error # "undefined"
    THEN Rejected("Error", FunctionErrorMessage(name, body.error))
    ELSE Resolved(body.data)

\* lines 46-52: what the call settles to once the body has been read
Settle(name, body) ==
    IF body.kind = "unparseable"
    THEN Rejected("SyntaxError", <<"Unexpected token in JSON">>)
    ELSE IF body.kind = "null"
    THEN Rejected("TypeError", <<"Cannot read properties of null (reading 'success')">>)
    ELSE IF ~body.success
    THEN Rejected("Error", FunctionErrorMessage(name, body.error))
    ELSE Resolved(body.data)

IdleCall == [pc |-> "idle", via |-> "", name |-> "", params |-> <<>>,
             status |-> 0, cause |-> "", body |-> NoBody, outcome |-> Pending]

(* ------------------------------------------------------------- actions *)

\* the constructor, lines 20-23
New(arg) ==
    /\ ctorArg = arg
    /\ obj = ("url" :> StringValue(NormalizeUrl(arg)))
    /\ calls = [c \in Slots |-> IdleCall]
    /\ net = [c \in Senders |-> <<>>]
    /\ lastLoad = "none"

Init == \E arg \in CallCtorArgs : New(arg)

FreeSlot(c) == calls[c].pc = "idle" /\ \A d \in Slots : d < c => calls[d].pc # "idle"

\* lines 31-41: the synchronous part of call, up to the first await
StartCall(c, via, name, params) ==
    /\ calls' = [calls EXCEPT ![c] = [IdleCall EXCEPT !.pc = "fetch", !.via = via,
                                         !.name = name, !.params = params]]
    /\ net' = [net EXCEPT ![c] = Append(@, CallRequest(obj, name, params))]
    /\ UNCHANGED <<ctorArg, obj, lastLoad>>

\* rpc.call(name, params), reaching RPC.prototype.call
Call(c, name, params) ==
    /\ FreeSlot(c)
    /\ ~IsStub(obj, "call")
    /\ StartCall(c, "call", name, params)

\* rpc[n](...args) for an installed stub, line 27.  When the property call
\* is itself a stub, this.call(name, args) re-enters stubs without end and
\* the engine throws RangeError before any request is made.
InvokeStub(c, n, args) ==
    /\ FreeSlot(c)
    /\ IsStub(obj, n)
    /\ IF IsStub(obj, "call")
       THEN /\ calls' = [calls EXCEPT ![c] =
                    [IdleCall EXCEPT !.pc = "done", !.via = "stub", !.name = obj[n].name,
                                     !.params = args,
                                     !.outcome = Threw("RangeError",
                                         <<"Maximum call stack size exceeded">>)]]
            /\ UNCHANGED <<ctorArg, obj, net, lastLoad>>
       ELSE StartCall(c, "stub", obj[n].name, args)

\* a catch block that sends the request once more before giving up
FetchRejectRetrying(c, e) ==
    /\ calls[c].pc = "fetch"
    /\ IF Len(net[c]) < 2
       THEN /\ net' = [net EXCEPT ![c] = Append(@, @[1])]
            /\ UNCHANGED <<ctorArg, obj, calls, lastLoad>>
       ELSE /\ calls' = [calls EXCEPT ![c].pc = "done", ![c].cause = e,
                          ![c].outcome = Rejected("Error",
                              NetworkErrorMessage(calls[c].name, obj["url"].text, e))]
            /\ UNCHANGED <<ctorArg, obj, net, lastLoad>>

\* lines 42-44: fetch rejected
FetchReject(c, e) ==
    /\ calls[c].pc = "fetch"
    /\ calls' = [calls EXCEPT ![c].pc = "done", ![c].cause = e,
                   ![c].outcome = Rejected("Error",
                       NetworkErrorMessage(calls[c].name, obj["url"].text, e))]
    /\ UNCHANGED <<ctorArg, obj, net, lastLoad>>

\* line 35: fetch resolved with a response of any status
FetchResolve(c, status) ==
    /\ calls[c].pc = "fetch"
    /\ calls' = [calls EXCEPT ![c].pc = "json", ![c].status = status]
    /\ UNCHANGED <<ctorArg, obj, net, lastLoad>>

\* lines 46-52: response.json() settled
JsonSettle(c, body) ==
    /\ calls[c].pc = "json"
    /\ calls' = [calls EXCEPT ![c].pc = "done", ![c].body = body,
                   ![c].outcome = Settle(calls[c].name, body)]
    /\ UNCHANGED <<ctorArg, obj, net, lastLoad>>

\* a load that treats its list as the whole stub table
InstallReplacing(o, method) ==
    [p \in (DOMAIN o \ StubNames(o)) \cup Range(method) |->
        IF p \in Range(method) THEN StubValue(p) ELSE o[p]]

RECURSIVE Install(_, _)
\* lines 26-28
Install(o, method) ==
    IF method = <<>> THEN o
    ELSE Install((Head(method) :> StubValue(Head(method))) @@ o, Tail(method))

\* rpc.load(...method), reaching RPC.prototype.load, lines 25-29
Load(method) ==
    /\ ~IsStub(obj, "load")
    /\ obj' = Install(obj, method)
    /\ lastLoad' = IF method = <<>> THEN "noargs"
                   ELSE IF Range(method) \subseteq StubNames(obj) THEN "reload"
                   ELSE "names"
    /\ UNCHANGED <<ctorArg, calls, net>>

\* the awaiting caller takes the settled outcome (README, lines 172-177)
Return(c) ==
    /\ calls[c].pc = "done"
    /\ calls' = [calls EXCEPT ![c] = IdleCall]
    /\ net' = [net EXCEPT ![c] = <<>>]
    /\ UNCHANGED <<ctorArg, obj, lastLoad>>

\* one client whose caller awaits each call before making the next
Next ==
    \/ \E c \in OneSlot, name \in Names, params \in ParamLists : Call(c, name, params)
    \/ \E c \in OneSlot, n \in Names, args \in ParamLists : InvokeStub(c, n, args)
    \/ \E c \in OneSlot, e \in Causes : FetchReject(c, e)
    \/ \E c \in OneSlot, status \in Statuses : FetchResolve(c, status)
    \/ \E c \in OneSlot, body \in Bodies : JsonSettle(c, body)
    \/ \E c \in OneSlot : Return(c)
    \/ \E method \in LoadLists : Load(method)

Spec == Init /\ [][Next]_vars

\* one client with up to MaxCalls calls of call(name, params) in flight
\* together, and loads between their steps
InitConc == \E arg \in ConcCtorArgs : New(arg)

NextConc ==
    \/ \E c \in Slots, name \in ConcNames, params \in ConcParams : Call(c, name, params)
    \/ \E c \in Slots, e \in ConcCauses : FetchReject(c, e)
    \/ \E c \in Slots, status \in ConcStatuses : FetchResolve(c, status)
    \/ \E c \in Slots, body \in ConcBodies : JsonSettle(c, body)
    \/ \E c \in Slots : Return(c)
    \/ \E method \in ConcLoadLists : Load(method)

SpecConc == InitConc /\ [][NextConc]_vars

\* clients constructed from every address, each then used a little
InitNew == \E arg \in CtorArgs : New(arg)

NextNew ==
    \/ \E c \in OneSlot, name \in ConcNames, params \in ConcParams : Call(c, name, params)
    \/ \E c \in OneSlot, n \in ConcNames, args \in ConcParams : InvokeStub(c, n, args)
    \/ \E c \in OneSlot, e \in ConcCauses : FetchReject(c, e)
    \/ \E c \in OneSlot, status \in ConcStatuses : FetchResolve(c, status)
    \/ \E c \in OneSlot, body \in NewBodies : JsonSettle(c, body)
    \/ \E c \in OneSlot : Return(c)
    \/ \E method \in NewLoadLists : Load(method)

SpecNew == InitNew /\ [][NextNew]_vars

(* -------------------------------------------------------------- claims *)

NetworkPrefix == "RPC Network Error while calling "
FunctionPrefix == "RPC function error from backend: "

\* the calls that entered RPC.call and have settled
Settled(c) == calls[c].pc = "done" /\ calls[c].outcome.kind # "threw"
GotEnvelope(c) == Settled(c) /\ calls[c].body.kind = "envelope"
FetchFailed(c) == Settled(c) /\ calls[c].cause # ""

\* C1: a call whose response body is a result envelope resolves with exactly
\* the envelope's data when success is true, and rejects with a message that
\* contains the server's error text when success is false.
C1_EnvelopeOutcome ==
    \A c \in Slots : GotEnvelope(c) =>
        /\ calls[c].body.success =>
              /\ calls[c].outcome.kind = "resolved"
              /\ calls[c].outcome.value = calls[c].body.data
        /\ ~calls[c].body.success =>
              /\ calls[c].outcome.kind = "rejected"
              /\ Contains(calls[c].outcome.message, calls[c].body.error)

C1_Witness ==
    \E c \in Slots : /\ GotEnvelope(c)
                     /\ ~calls[c].body.success
                     /\ calls[c].body.error = "boom"
                     /\ calls[c].body.data = "d1"

\* C2: a call whose fetch failed rejects with the network error, whose
\* message carries the description of the cause; it neither resolves nor
\* reports a function error.
C2_NetworkFailureRejects ==
    \A c \in Slots : FetchFailed(c) =>
        /\ calls[c].outcome.kind = "rejected"
        /\ calls[c].outcome.class = "Error"
        /\ Head(calls[c].outcome.message) = NetworkPrefix
        /\ Contains(calls[c].outcome.message, calls[c].cause)

C2_Witness ==
    \E c \in Slots : FetchFailed(c) /\ calls[c].cause = "AbortError: The operation was aborted"

\* C3 as stated: the rejection built from a failure envelope has a message
\* that combines the function name, the client's url and the server's error.
C3_MessageHasNameUrlError ==
    \A c \in Slots : (GotEnvelope(c) /\ ~calls[c].body.success) =>
        /\ Contains(calls[c].outcome.message, calls[c].name)
        /\ ContainsSeq(calls[c].outcome.message, obj["url"].text)
        /\ Contains(calls[c].outcome.message, calls[c].body.error)

\* C3 as amended: the rejection built from a failure envelope has a message
\* that combines the function name and the server's error (the url is part
\* of the network error's message only).
C3_MessageHasNameError ==
    \A c \in Slots : (GotEnvelope(c) /\ ~calls[c].body.success) =>
        /\ calls[c].outcome.kind = "rejected"
        /\ Head(calls[c].outcome.message) = FunctionPrefix
        /\ Contains(calls[c].outcome.message, calls[c].name)
        /\ Contains(calls[c].outcome.message, calls[c].body.error)

C3_Witness ==
    \E c \in Slots : /\ GotEnvelope(c)
                     /\ ~calls[c].body.success
                     /\ calls[c].body.error = "boom"
                     /\ calls[c].name = "getUser"
                     /\ obj["url"].text = <<"h">>

\* the request call(name, params) is to send: POST, JSON, method = name,
\* version 1, and the arguments one by one in their order
IsCallRequest(r, name, params) ==
    /\ r.verb = "POST"
    /\ r.contentType = "application/json"
    /\ r.body.method = name
    /\ r.body.version = 1
    /\ Len(r.body.params) = Len(params)
    /\ \A i \in 1..Len(params) :
          r.body.params[i] = (IF params[i] = "undefined" THEN "null" ELSE params[i])

\* C4: an invocation of an installed stub with args does what call(name,
\* args) does: it sends that one request and settles as the call settles.
C4_StubIsCall ==
    \A c \in Slots : (calls[c].via = "stub" /\ calls[c].pc # "idle") =>
        /\ Len(net[c]) = 1
        /\ IsCallRequest(net[c][1], calls[c].name, calls[c].params)
        /\ calls[c].outcome.kind # "threw"
        /\ (calls[c].pc = "done" /\ calls[c].cause = "") =>
              calls[c].outcome = Settle(calls[c].name, calls[c].body)

\* C5: after load() with no arguments a GET of url/discover has been sent
\* and every name the server has registered is an installed stub.
C5_LoadDiscovers ==
    lastLoad = "noargs" =>
        /\ \E i \in 1..Len(net[0]) :
              /\ net[0][i].verb = "GET"
              /\ net[0][i].target = obj["url"].text \o <<"/discover">>
        /\ Registry \subseteq StubNames(obj)

\* C6: in every step the url keeps its value, installed stub names are
\* never lost, the object changes only in a load, and a step of a call
\* leaves the object as it is.
C6_Frame ==
    [][ /\ obj'["url"] = obj["url"]
        /\ StubNames(obj) \subseteq StubNames(obj')
        /\ (obj' # obj => \E method \in LoadLists : Load(method))
        /\ (calls' # calls => obj' = obj) ]_vars

\* C7: no step removes an installed stub, and a load of names that are all
\* installed already (a load of the same list once more) leaves the set of
\* stubs as it is.
C7_LoadIdempotentAppendOnly ==
    [][ /\ StubNames(obj) \subseteq StubNames(obj')
        /\ (calls' = calls /\ lastLoad' = "reload") =>
              StubNames(obj') = StubNames(obj) ]_vars

C7_Witness ==
    lastLoad = "reload" /\ Cardinality(StubNames(obj)) > MaxLoad

\* the texts the url property can yield in a template literal
UrlTexts == {NormalizeUrl(ctorArg), <<FnSrc>>}

C9_NoTrailingSlash ==
    obj["url"].kind = "string" =>
        /\ ~endsWith(obj["url"].text, "/")
        /\ (~endsWith(ctorArg.url, "/") => obj["url"].text = ctorArg.url)

\* C10: a settled call resolved with data, or rejected with the network
\* error, or rejected with the function error built from the envelope,
\* whatever the body and the status of the response.
C10_ThreeOutcomes ==
    \A c \in Slots : Settled(c) =>
        \/ calls[c].outcome.kind = "resolved"
        \/ /\ calls[c].outcome.kind = "rejected"
           /\ calls[c].outcome.class = "Error"
           /\ Head(calls[c].outcome.message) = NetworkPrefix
        \/ /\ calls[c].outcome.kind = "rejected"
           /\ calls[c].outcome.class = "Error"
           /\ Head(calls[c].outcome.message) = FunctionPrefix

====
